---- MODULE Spec2Model ----
(***************************************************************************)
(* Concurrent provider-fetch orchestration of search-engine-go:            *)
(*   - circuitbreaker.CircuitBreaker   (src/unnamed/part_007)              *)
(*   - service.ProviderService         (src/internal/service/              *)
(*                                      content_service_test.go:372-496)   *)
(*   - service.ContentService          (src/unnamed/part_004:78-219)       *)
(*   - repository.ContentRepository    (src/internal/api/handler/          *)
(*                                      content_handler_integration_test   *)
(*                                      .go:252-380)                       *)
(*   - cache.InMemoryCache             (src/unnamed/part_006:107-212)      *)
(* Every lock acquisition of the code is one step of the model; the steps  *)
(* of different goroutines interleave freely.                              *)
(* Spec is the provider service under direct, concurrent callers;          *)
(* SearchSpec is ContentService.Search over cache, store and the provider  *)
(* service; KeySpec and PageSpec apply generateCacheKey and                *)
(* paginateCachedResults to their arguments; StoreSpec is                  *)
(* BatchCreateOrUpdate statement by statement on a table with IDs;         *)
(* CacheSpec is the in-memory cache with a Get that runs next to Set,      *)
(* Delete, Clear and Close; BreakerSpec is one breaker under concurrent    *)
(* Execute, GetState and Reset calls.                                      *)
(***************************************************************************)
EXTENDS Integers, Sequences, FiniteSets, TLC

(* ------------------------------ bounds -------------------------------- *)

\* Number of goroutines that may be inside FetchFromAllProviders at once.
MaxCalls == 2

\* Largest number of records one adapter call returns.
MaxRecords == 1

(* ------------------------- program constants -------------------------- *)

\* circuitbreaker.NewCircuitBreaker(5, 30*time.Second)
MaxFailures == 5

ResetTimeout == 30

\* halfOpenTimeout: resetTimeout / 2; also the granularity of the clock.
halfOpenTimeout == ResetTimeout \div 2

Providers == {"A", "B"}

\* What setupProviders has registered when the service starts to serve:
\* nothing, A, or A and then B.
Registrations == {{}, {"A"}, {"A", "B"}}

Calls == 1..MaxCalls

\* Fetch goroutines alive at once, callers times adapters: as many as one
\* fan-out over all the providers starts.
MaxGoroutines == Cardinality(Providers)

CircuitStateClosed == "closed"

CircuitStateOpen == "open"

CircuitStateHalfOpen == "half-open"

\* No breaker: a map miss, a goroutine that holds none.
Nil == <<"nil", 0>>

(* ------------------------------ errors -------------------------------- *)

\* An error value is the sequence of the pieces of its Error() text.
NoError == <<>>

\* errors.New("circuit breaker is open")
ErrCircuitOpen == <<"circuit breaker is open">>

\* ctx.Err() of a cancelled context: context.Canceled.
ErrCanceled == <<"context canceled">>

\* Error texts an adapter may fail with.
AdapterErrors ==
    {<<"provider error">>, <<"circuit breaker is open">>, ErrCanceled}

\* fmt.Errorf("provider %s: circuit breaker is open", providerName)
LabelOpen(p) == <<"provider ", p, ": ">> \o <<"circuit breaker is open">>

\* The label without the provider's name.
LabelFailed_NoName(p, cbErr) == <<"provider ", "", ": ">> \o cbErr

\* fmt.Errorf("provider %s: %w", providerName, cbErr)
LabelFailed(p, cbErr) == <<"provider ", p, ": ">> \o cbErr

RECURSIVE Flatten(_)
Flatten(errs) ==
    IF errs = <<>> THEN <<>> ELSE Head(errs) \o Flatten(Tail(errs))

\* fmt.Errorf("all providers failed: %v", errors)
AggregateError(errs) == <<"all providers failed", ": ">> \o Flatten(errs)

(* ----------------------------- adapters ------------------------------- *)

\* The records provider p may return: a prefix of p's records.
RecordsOf(p, n) == [i \in 1..n |-> <<p, i>>]

AdapterResults(p) == {RecordsOf(p, n) : n \in 0..MaxRecords}

(* -------------------------- circuit breaker --------------------------- *)

\* lastFailureTime is kept as its age, time.Since(lastFailureTime) in seconds,
\* capped at resetTimeout: Execute compares the age with resetTimeout and
\* nothing else reads the field. The zero time.Time is older than any timeout.
NewCircuitBreaker ==
    [state |-> CircuitStateClosed, failureCount |-> 0,
     successCount |-> 0, sinceLastFailure |-> ResetTimeout]

\* recordFailure with > for >=.
recordFailure_OneLate(cb) ==
    LET counted == [cb EXCEPT !.failureCount = @ + 1, !.sinceLastFailure = 0]
    IN  IF counted.state = CircuitStateHalfOpen
        THEN [counted EXCEPT !.state = CircuitStateOpen,
                             !.failureCount = 1, !.successCount = 0]
        ELSE IF counted.failureCount > MaxFailures
             THEN [counted EXCEPT !.state = CircuitStateOpen]
             ELSE counted

\* recordFailure without its HalfOpen branch.
recordFailure_NoProbeBranch(cb) ==
    LET counted == [cb EXCEPT !.failureCount = @ + 1, !.sinceLastFailure = 0]
    IN  IF counted.failureCount >= MaxFailures
        THEN [counted EXCEPT !.state = CircuitStateOpen]
        ELSE counted

\* recordFailure that counts every failure twice.
recordFailure_CountsTwice(cb) ==
    LET counted == [cb EXCEPT !.failureCount = @ + 2, !.sinceLastFailure = 0]
    IN  IF counted.state = CircuitStateHalfOpen
        THEN [counted EXCEPT !.state = CircuitStateOpen,
                             !.failureCount = 1, !.successCount = 0]
        ELSE IF counted.failureCount >= MaxFailures
             THEN [counted EXCEPT !.state = CircuitStateOpen]
             ELSE counted

\* cb.lastFailureTime = time.Now() makes the age 0.
recordFailure(cb) ==
    LET counted == [cb EXCEPT !.failureCount = @ + 1, !.sinceLastFailure = 0]
    IN  IF counted.state = CircuitStateHalfOpen
        THEN [counted EXCEPT !.state = CircuitStateOpen,
                             !.failureCount = 1, !.successCount = 0]
        ELSE IF counted.failureCount >= MaxFailures
             THEN [counted EXCEPT !.state = CircuitStateOpen]
             ELSE counted

\* recordSuccess that leaves the failure count as it is.
recordSuccess_KeepsFailures(cb) ==
    CASE cb.state = CircuitStateHalfOpen ->
           IF cb.successCount + 1 >= 2
           THEN [cb EXCEPT !.state = CircuitStateClosed, !.successCount = 0]
           ELSE [cb EXCEPT !.successCount = @ + 1]
      [] cb.state = CircuitStateOpen -> [cb EXCEPT !.state = CircuitStateClosed]
      [] OTHER -> cb

recordSuccess(cb) ==
    LET cleared == [cb EXCEPT !.failureCount = 0]
    IN  CASE cleared.state = CircuitStateHalfOpen ->
               IF cleared.successCount + 1 >= 2
               THEN [cleared EXCEPT !.state = CircuitStateClosed,
                                    !.successCount = 0]
               ELSE [cleared EXCEPT !.successCount = @ + 1]
          [] cleared.state = CircuitStateOpen ->
               [cleared EXCEPT !.state = CircuitStateClosed]
          [] OTHER -> cleared

transitionToHalfOpen(cb) ==
    IF cb.state = CircuitStateOpen
    THEN [cb EXCEPT !.state = CircuitStateHalfOpen,
                    !.successCount = 0, !.failureCount = 0]
    ELSE cb

\* A Reset that leaves the success count as it is.
Reset_KeepsSuccessCount(cb) ==
    [cb EXCEPT !.state = CircuitStateClosed, !.failureCount = 0]

\* Reset: state Closed, both counters 0; lastFailureTime stays.
Reset(cb) ==
    [cb EXCEPT !.state = CircuitStateClosed, !.failureCount = 0,
               !.successCount = 0]

\* The comparison made with halfOpenTimeout in place of resetTimeout.
resetTimeoutElapsed_HalfOpenTimeout(cb) ==
    cb.sinceLastFailure >= halfOpenTimeout

\* time.Since(cb.lastFailureTime) >= cb.resetTimeout
resetTimeoutElapsed(cb) == cb.sinceLastFailure >= ResetTimeout

(* -------------------------- provider service -------------------------- *)

\* FetchFromAllProviders without its early return.
hasNoAdapters_Never(a) == FALSE

hasNoAdapters(a) == Cardinality(a) = 0

\* allProvidersFailed with len(errors) > 1.
allProvidersFailed_OffByOne(contents, errs) ==
    Len(contents) = 0 /\ Len(errs) > 1

\* allProvidersFailed that looks at the failure list alone.
allProvidersFailed_AnyError(contents, errs) == Len(errs) > 0

allProvidersFailed(contents, errs) == Len(contents) = 0 /\ Len(errs) > 0

\* cbErr.Error() == "circuit breaker is open"
isCircuitOpenText(cbErr) == cbErr = <<"circuit breaker is open">>

\* allContents = contents: an assignment in place of the append.
appendContents_Overwrite(all, contents) == contents

\* allContents = append(allContents, contents...)
appendContents(all, contents) == all \o contents

\* The (contents, error) pair FetchFromAllProviders returns after wg.Wait().
Classify(contents, errs) ==
    IF allProvidersFailed(contents, errs)
    THEN [contents |-> <<>>, isNil |-> TRUE, err |-> AggregateError(errs)]
    ELSE [contents |-> contents, isNil |-> Len(contents) = 0, err |-> NoError]

\* return []*domain.Content{}, nil
EmptyResult == [contents |-> <<>>, isNil |-> FALSE, err |-> NoError]

NoResult == [contents |-> <<>>, isNil |-> TRUE, err |-> <<"pending">>]

BreakerIds == Providers \X Calls

IdleTask ==
    [pc |-> "none", cb |-> Nil, contents |-> <<>>, cbErr |-> NoError,
     executed |-> 0, invoked |-> 0, rejected |-> FALSE, class |-> "none"]

(* ---------------------------- search requests ------------------------- *)

\* domain.DefaultPage, domain.DefaultPageSize, domain.MaxPageSize
DefaultPage == 1

DefaultPageSize == 20

MaxPageSize == 100

\* A nil *ContentType. A string is the sequence of the pieces of its text.
NoType == <<"<nil>">>

\* NormalizePagination without the cap on the page size.
NormalizePagination_NoCap(req) ==
    LET paged == IF req.page <= 0
                 THEN [req EXCEPT !.page = DefaultPage] ELSE req
    IN  IF paged.pageSize <= 0
        THEN [paged EXCEPT !.pageSize = DefaultPageSize] ELSE paged

\* PaginationSpecification.NormalizePagination: the three ifs in their order.
NormalizePagination(req) ==
    LET paged == IF req.page <= 0
                 THEN [req EXCEPT !.page = DefaultPage] ELSE req
        sized == IF paged.pageSize <= 0
                 THEN [paged EXCEPT !.pageSize = DefaultPageSize] ELSE paged
    IN  IF sized.pageSize > MaxPageSize
        THEN [sized EXCEPT !.pageSize = MaxPageSize] ELSE sized

\* Search: if req.SortOrder != "asc" && req.SortOrder != "desc", "desc".
NormalizeSortOrder(req) ==
    IF req.sortOrder # <<"asc">> /\ req.sortOrder # <<"desc">>
    THEN [req EXCEPT !.sortOrder = <<"desc">>] ELSE req

\* fmt.Sprintf("search:%s:%s:%s:%s", req.Query, contentType, req.SortBy,
\* sortOrder)
generateCacheKey(req) ==
    LET contentType == IF req.contentType # NoType
                       THEN req.contentType ELSE <<"all">>
        sortOrder == IF req.sortOrder = <<>> THEN <<"desc">> ELSE req.sortOrder
    IN  <<"search", ":">> \o req.query \o <<":">> \o contentType \o <<":">>
           \o req.sortBy \o <<":">> \o sortOrder

(* -------------------------------- store ------------------------------- *)

\* A row of the contents table is the record <<provider, i>> a provider
\* delivered; its columns are functions of the row.
TitleOf(r) == <<"go", " ", r[1]>>

TypeOf(r) == IF r[1] = "A" THEN <<"video">> ELSE <<"text">>

\* content.Score = s.scoringSvc.CalculateScore(content): no two rows tie.
ScoreOf(r) == 2 * r[2] + (IF r[1] = "A" THEN 1 ELSE 0)

\* title LIKE '%query%'
TitleLike(r, query) ==
    \E i \in 1..Len(TitleOf(r)) :
       /\ i + Len(query) - 1 <= Len(TitleOf(r))
       /\ SubSeq(TitleOf(r), i, i + Len(query) - 1) = query

\* The WHERE clauses of ContentRepository.Search.
Matching(rows, req) ==
    {r \in rows :
       /\ req.query # <<>> => TitleLike(r, req.query)
       /\ req.contentType # NoType => TypeOf(r) = req.contentType}

\* ORDER BY score ASC / DESC, the default case of the switch on SortBy.
RECURSIVE OrderByScore(_, _)
OrderByScore(rows, sortOrder) ==
    IF rows = {} THEN <<>>
    ELSE LET first == CHOOSE r \in rows :
                         \A o \in rows :
                            IF sortOrder = "ASC"
                            THEN ScoreOf(r) <= ScoreOf(o)
                            ELSE ScoreOf(r) >= ScoreOf(o)
         IN  <<first>> \o OrderByScore(rows \ {first}, sortOrder)

Min(a, b) == IF a <= b THEN a ELSE b

\* ContentRepository.Search: the count, then OFFSET (page-1)*pageSize and
\* LIMIT pageSize on the ordered rows.
RepoSearch(rows, req) ==
    LET offset == (req.page - 1) * req.pageSize
        matching == Matching(rows, req)
        total == Cardinality(matching)
        sortOrder == IF req.sortOrder = <<"asc">> THEN "ASC" ELSE "DESC"
        ordered == OrderByScore(matching, sortOrder)
    IN  [contents |-> SubSeq(ordered, offset + 1,
                             Min(offset + req.pageSize, total)),
         total |-> total]

\* ContentRepository.BatchCreateOrUpdate: one row per (provider_id, provider).
BatchCreateOrUpdate(rows, contents) ==
    rows \cup {contents[i] : i \in DOMAIN contents}

(* ------------------------------ Go's int ------------------------------ *)

\* An int is 64 bits wide: the four 16-bit digits of its two's complement,
\* the lowest first.
Digit == 2^16

\* The int of a small natural number.
ToInt(n) == <<n % Digit, n \div Digit, 0, 0>>

MinusOne == <<Digit - 1, Digit - 1, Digit - 1, Digit - 1>>

\* x + y, wrapping around.
Plus(x, y) ==
    LET d1 == x[1] + y[1]
        d2 == x[2] + y[2] + d1 \div Digit
        d3 == x[3] + y[3] + d2 \div Digit
        d4 == x[4] + y[4] + d3 \div Digit
    IN  <<d1 % Digit, d2 % Digit, d3 % Digit, d4 % Digit>>

\* x * n for a small natural number n, wrapping around.
Times(x, n) ==
    LET d1 == x[1] * n
        d2 == x[2] * n + d1 \div Digit
        d3 == x[3] * n + d2 \div Digit
        d4 == x[4] * n + d3 \div Digit
    IN  <<d1 % Digit, d2 % Digit, d3 % Digit, d4 % Digit>>

Negative(x) == x[4] >= Digit \div 2

\* x < y as signed ints.
Less(x, y) ==
    IF Negative(x) # Negative(y) THEN Negative(x)
    ELSE \E i \in 1..4 :
            /\ x[i] < y[i]
            /\ \A j \in (i + 1)..4 : x[j] = y[j]

\* A slice expression s[lo:hi] panics unless 0 <= lo <= hi <= len(s).
Slice(s, lo, hi) ==
    IF Negative(lo) \/ Less(hi, lo) \/ Less(ToInt(Len(s)), hi)
    THEN [panic |-> TRUE, items |-> <<>>]
    ELSE [panic |-> FALSE, items |-> SubSeq(s, lo[1] + 1, hi[1])]

isStartBeyondBounds(start, total) == Less(ToInt(total), start)

isEndBeyondBounds(end, total) == Less(ToInt(total), end)

\* ContentService.paginateCachedResults; page is an int, pageSize a small
\* natural number.
paginateCachedResults(cached, page, pageSize) ==
    LET start == Times(Plus(page, MinusOne), pageSize)
        end == Plus(start, ToInt(pageSize))
        total == Len(cached)
    IN  IF isStartBeyondBounds(start, total)
        THEN [panic |-> FALSE, items |-> <<>>]
        ELSE IF isEndBeyondBounds(end, total)
             THEN Slice(cached, start, ToInt(total))
             ELSE Slice(cached, start, end)

(* --------------------------- content service -------------------------- *)

\* &domain.SearchResponse{...}, nil
Response(items, total, req) ==
    [isNil |-> FALSE, items |-> items, total |-> total, page |-> req.page,
     pageSize |-> req.pageSize,
     totalPages |-> (total + req.pageSize - 1) \div req.pageSize,
     err |-> "nil"]

\* nil, domain.NewProviderError(...) or domain.NewDatabaseError(...); a
\* panic of the call is the error "panic".
ErrorResponse(code) ==
    [isNil |-> TRUE, items |-> <<>>, total |-> 0, page |-> 0, pageSize |-> 0,
     totalPages |-> 0, err |-> code]

NoResponse == ErrorResponse("pending")

\* A Search that never gives up on the providers.
isProviderFailure_Never(contents, err) == FALSE

\* Search: err != nil and len(allContents) == 0.
isProviderFailure(contents, err) == err # NoError /\ Len(contents) = 0

\* The requests the search handler passes to ContentService.Search.
SearchRequests ==
    [query : {<<"go">>}, contentType : {NoType, <<"video">>},
     page : {0, 1, 2}, pageSize : {0, 2, 101},
     sortBy : {<<"score">>}, sortOrder : {<<>>}]

NoRequest ==
    [query |-> <<>>, contentType |-> NoType, page |-> 0, pageSize |-> 0,
     sortBy |-> <<>>, sortOrder |-> <<>>]

\* What earlier runs have saved in the contents table.
SavedRows == {{}, {<<"B", 1>>, <<"B", 2>>}}

\* What setupProviders has registered in the runs of the search service.
SearchRegistrations == {{}, {"A"}}

VARIABLES
    adapters,         \* registry.GetAll(): the registered provider names
    callers,          \* the goroutines that call FetchFromAllProviders
    circuitBreakers,  \* ProviderService.circuitBreakers: name -> breaker
    heap,             \* the breaker objects, by identity
    created,          \* identities of the breakers NewCircuitBreaker made
    streak,           \* per breaker: failed calls in a row, up to maxFailures
    callpc,           \* per caller: "idle", "wait" (wg.Wait) or "returned"
    task,             \* per caller and provider: the fetch goroutine
    allContents,      \* per caller: the merged records
    errors,           \* per caller: the labeled failures
    ret,              \* per caller: what the last call returned
    spc,              \* where the Search call is; "direct": no Search, the
                      \* callers call FetchFromAllProviders themselves
    req,              \* Search: the request
    cacheKey,         \* Search: the cache key of the request
    found,            \* Search: what repo.Search returned
    resp,             \* what the last Search returned
    cache,            \* the cache: key -> cached records
    fresh,            \* the cached keys written since the store last changed
    store,            \* the rows of the contents table
    dbDown,           \* the database fails every statement
    warned,           \* Search has logged "Failed to cache results"
    args,             \* the arguments a function is applied to
    result,           \* what the function returned
    table,            \* the committed rows of the contents table, with IDs
    nextID,           \* the next value of the table's ID sequence
    batch,            \* the []*domain.Content given to BatchCreateOrUpdate
    tx,               \* the transaction of the BatchCreateOrUpdate under way
    txErr,            \* what the last BatchCreateOrUpdate returned
    data,             \* InMemoryCache.data: key -> cacheItem
    getter,           \* per goroutine: the Get it is in, and what Get returned
    live,             \* per key: the entry of the last Set, unless the key
                      \* was deleted, cleared or evicted since
    observed,         \* what the last GetState returned
    tally             \* failed Execute calls that returned since the breaker
                      \* was new, Reset or not Closed, up to MaxTally

searchVars == <<spc, req, cacheKey, found, resp, cache, fresh, store, dbDown,
               warned>>

applyVars == <<args, result>>

storeVars == <<table, nextID, batch, tx, txErr>>

cacheVars == <<data, getter, live>>

breakerVars == <<observed, tally>>

unitVars == <<storeVars, cacheVars, breakerVars>>

vars == <<adapters, callers, circuitBreakers, heap, created, streak, callpc, task,
          allContents, errors, ret, searchVars, applyVars, unitVars>>

\* NewProviderService: no breaker yet, no call under way.
NoFetch ==
    /\ circuitBreakers = [p \in Providers |-> Nil]
    /\ heap = [b \in BreakerIds |-> NewCircuitBreaker]
    /\ created = {}
    /\ streak = [b \in BreakerIds |-> 0]
    /\ callpc = [c \in Calls |-> "idle"]
    /\ task = [c \in Calls |-> [p \in Providers |-> IdleTask]]
    /\ allContents = [c \in Calls |-> <<>>]
    /\ errors = [c \in Calls |-> <<>>]
    /\ ret = [c \in Calls |-> NoResult]

\* No Search under way, nothing cached.
NoSearch ==
    /\ req = NoRequest
    /\ cacheKey = <<>>
    /\ found = [contents |-> <<>>, total |-> 0]
    /\ resp = NoResponse
    /\ cache = <<>>
    /\ fresh = {}
    /\ dbDown = FALSE
    /\ warned = FALSE

NoApplication == args = <<>> /\ result = <<>>

\* No transaction under way.
NoTx ==
    [pc |-> "none", rows |-> {}, pos |-> 0, err |-> NoError, startID |-> 1,
     again |-> FALSE]

\* An empty contents table, no BatchCreateOrUpdate called yet.
NoStore ==
    /\ table = {}
    /\ nextID = 1
    /\ batch = <<>>
    /\ tx = NoTx
    /\ txErr = <<"pending">>

\* Goroutines that call Get.
Getters == {1}

\* A Get that is not under way and has not returned yet.
NoGet ==
    [pc |-> "idle", key |-> "", exists |-> FALSE, item |-> <<>>,
     found |-> FALSE, value |-> <<>>]

\* NewInMemory: an empty map.
NoCache ==
    /\ data = <<>>
    /\ getter = [g \in Getters |-> NoGet]
    /\ live = <<>>

\* No GetState called yet, no Execute returned yet.
NoBreakerUse ==
    /\ observed = <<>>
    /\ tally = 0

NoUnits == NoStore /\ NoCache /\ NoBreakerUse

Init ==
    /\ adapters \in Registrations
    /\ \E n \in 1..MaxCalls :
         /\ n * Cardinality(adapters) <= MaxGoroutines
         /\ callers = 1..n
    /\ NoFetch
    /\ spc = "direct"
    /\ store = {}
    /\ NoSearch
    /\ NoApplication
    /\ NoUnits

\* The caller is about to call FetchFromAllProviders: any caller that calls
\* it directly, and the Search that has missed the cache.
Calling(c) ==
    \/ spc = "direct" /\ callpc[c] \in {"idle", "returned"}
    \/ spc = "fetch" /\ callpc[c] = "idle"

\* A barrier that opens at the first wg.Done().
wgWait_AnyDone(c) == \E p \in Providers : task[c][p].pc = "done"

\* wg.Wait(): every started goroutine has run its deferred wg.Done().
wgWait(c) == \A p \in Providers : task[c][p].pc \in {"none", "done"}

\* FetchFromAllProviders with no adapter registered.
FetchNoAdapters(c) ==
    /\ c \in callers
    /\ Calling(c)
    /\ hasNoAdapters(adapters)
    /\ callpc' = [callpc EXCEPT ![c] = "returned"]
    /\ ret' = [ret EXCEPT ![c] = EmptyResult]
    /\ task' = [task EXCEPT ![c] = [p \in Providers |-> IdleTask]]
    /\ allContents' = [allContents EXCEPT ![c] = <<>>]
    /\ errors' = [errors EXCEPT ![c] = <<>>]
    /\ UNCHANGED <<searchVars, applyVars, unitVars, adapters, callers, circuitBreakers, heap, created, streak>>

\* FetchFromAllProviders: one goroutine per registered adapter.
FetchFanOut(c) ==
    /\ c \in callers
    /\ Calling(c)
    /\ ~hasNoAdapters(adapters)
    /\ callpc' = [callpc EXCEPT ![c] = "wait"]
    /\ ret' = [ret EXCEPT ![c] = NoResult]
    /\ task' = [task EXCEPT ![c] =
                  [p \in Providers |->
                     IF p \in adapters
                     THEN [IdleTask EXCEPT !.pc = "getcb"]
                     ELSE IdleTask]]
    /\ allContents' = [allContents EXCEPT ![c] = <<>>]
    /\ errors' = [errors EXCEPT ![c] = <<>>]
    /\ UNCHANGED <<searchVars, applyVars, unitVars, adapters, callers, circuitBreakers, heap, created, streak>>

\* getCircuitBreaker: the read under RLock, and NewCircuitBreaker on a miss.
GetCircuitBreakerRead(c, p) ==
    /\ task[c][p].pc = "getcb"
    /\ IF circuitBreakers[p] # Nil
       THEN /\ task' = [task EXCEPT ![c][p].cb = circuitBreakers[p],
                                    ![c][p].pc = "exec"]
            /\ UNCHANGED <<heap, created, streak>>
       ELSE /\ task' = [task EXCEPT ![c][p].cb = <<p, c>>,
                                    ![c][p].pc = "store"]
            /\ heap' = [heap EXCEPT ![<<p, c>>] = NewCircuitBreaker]
            /\ created' = created \cup {<<p, c>>}
            /\ streak' = [streak EXCEPT ![<<p, c>>] = 0]
    /\ UNCHANGED <<searchVars, applyVars, unitVars, adapters, callers, circuitBreakers, callpc, allContents,
                   errors, ret>>

\* getCircuitBreaker: the store under Lock.
GetCircuitBreakerStore(c, p) ==
    /\ task[c][p].pc = "store"
    /\ circuitBreakers' = [circuitBreakers EXCEPT ![p] = task[c][p].cb]
    /\ task' = [task EXCEPT ![c][p].pc = "exec"]
    /\ UNCHANGED <<searchVars, applyVars, unitVars, adapters, callers, heap, created, streak, callpc, allContents,
                   errors, ret>>

\* Execute: state := cb.getState() and the switch on it.
ExecuteGetState(c, p) ==
    /\ task[c][p].pc = "exec"
    /\ task' = [task EXCEPT
                  ![c][p].executed = @ + 1,
                  ![c][p].pc =
                     IF heap[task[c][p].cb].state = CircuitStateOpen
                     THEN "open" ELSE "fn"]
    /\ UNCHANGED <<searchVars, applyVars, unitVars, adapters, callers, circuitBreakers, heap, created, streak, callpc,
                   allContents, errors, ret>>

\* Execute, case CircuitStateOpen: the read of lastFailureTime; either the
\* call goes on to transitionToHalfOpen or Execute returns the open error.
ExecuteOpen(c, p) ==
    /\ task[c][p].pc = "open"
    /\ IF resetTimeoutElapsed(heap[task[c][p].cb])
       THEN task' = [task EXCEPT ![c][p].pc = "trans"]
       ELSE task' = [task EXCEPT ![c][p].pc = "ret",
                                 ![c][p].rejected = TRUE,
                                 ![c][p].cbErr = ErrCircuitOpen]
    /\ UNCHANGED <<searchVars, applyVars, unitVars, adapters, callers, circuitBreakers, heap, created, streak, callpc,
                   allContents, errors, ret>>

\* Execute: cb.transitionToHalfOpen().
ExecuteTransition(c, p) ==
    /\ task[c][p].pc = "trans"
    /\ heap' = [heap EXCEPT ![task[c][p].cb] = transitionToHalfOpen(@)]
    /\ task' = [task EXCEPT ![c][p].pc = "fn"]
    /\ UNCHANGED <<searchVars, applyVars, unitVars, adapters, callers, circuitBreakers, created, streak,
                   callpc, allContents, errors, ret>>

\* An Execute whose failure is recorded on the breakers of all providers.
ExecuteFailure_AllBreakers(c, p) ==
    /\ task[c][p].pc = "fn"
    /\ \E e \in AdapterErrors :
         task' = [task EXCEPT ![c][p].pc = "ret",
                              ![c][p].invoked = @ + 1,
                              ![c][p].cbErr = e]
    /\ heap' = [b \in BreakerIds |->
                  IF b \in created THEN recordFailure(heap[b]) ELSE heap[b]]
    /\ streak' = [streak EXCEPT ![task[c][p].cb] =
                    IF @ < MaxFailures THEN @ + 1 ELSE @]
    /\ UNCHANGED <<searchVars, applyVars, unitVars, adapters, callers, circuitBreakers, created, callpc,
                   allContents, errors, ret>>

\* Execute: fn() returns an error; cb.recordFailure(); return err. What fn
\* returned is known to this goroutine alone until it takes the lock, so the
\* return of fn and the record under the lock are one step.
ExecuteFailure(c, p) ==
    /\ task[c][p].pc = "fn"
    /\ \E e \in AdapterErrors :
         task' = [task EXCEPT ![c][p].pc = "ret",
                              ![c][p].invoked = @ + 1,
                              ![c][p].cbErr = e]
    /\ heap' = [heap EXCEPT ![task[c][p].cb] = recordFailure(@)]
    /\ streak' = [streak EXCEPT ![task[c][p].cb] =
                    IF @ < MaxFailures THEN @ + 1 ELSE @]
    /\ UNCHANGED <<searchVars, applyVars, unitVars, adapters, callers, circuitBreakers, created, callpc,
                   allContents, errors, ret>>

\* Execute: fn() returns records; cb.recordSuccess(); return nil.
ExecuteSuccess(c, p) ==
    /\ task[c][p].pc = "fn"
    /\ \E r \in AdapterResults(p) :
         task' = [task EXCEPT ![c][p].pc = "ret",
                              ![c][p].invoked = @ + 1,
                              ![c][p].contents = r,
                              ![c][p].cbErr = NoError]
    /\ heap' = [heap EXCEPT ![task[c][p].cb] = recordSuccess(@)]
    /\ streak' = [streak EXCEPT ![task[c][p].cb] = 0]
    /\ UNCHANGED <<searchVars, applyVars, unitVars, adapters, callers, circuitBreakers, created, callpc,
                   allContents, errors, ret>>

\* The goroutine after Execute: the append under mu, then wg.Done().
TaskMerge(c, p) ==
    /\ task[c][p].pc = "ret"
    /\ LET cbErr == task[c][p].cbErr
       IN  IF cbErr # NoError
           THEN IF isCircuitOpenText(cbErr)
                THEN /\ errors' = [errors EXCEPT ![c] = Append(@, LabelOpen(p))]
                     /\ task' = [task EXCEPT ![c][p].pc = "done",
                                             ![c][p].class = "open"]
                     /\ UNCHANGED allContents
                ELSE /\ errors' = [errors EXCEPT
                                     ![c] = Append(@, LabelFailed(p, cbErr))]
                     /\ task' = [task EXCEPT ![c][p].pc = "done",
                                             ![c][p].class = "failed"]
                     /\ UNCHANGED allContents
           ELSE /\ allContents' = [allContents EXCEPT
                      ![c] = appendContents(@, task[c][p].contents)]
                /\ task' = [task EXCEPT ![c][p].pc = "done",
                                        ![c][p].class = "ok"]
                /\ UNCHANGED errors
    /\ UNCHANGED <<searchVars, applyVars, unitVars, adapters, callers, circuitBreakers, heap, created, streak, callpc, ret>>

\* A breaker is reachable while the map or a goroutine refers to it.
Reachable(b, tasks) ==
    \/ \E p \in Providers : circuitBreakers[p] = b
    \/ \E c \in Calls, p \in Providers : tasks[c][p].cb = b

\* wg.Wait() returns; allProvidersFailed; return. The finished goroutines
\* are gone, and a breaker nothing refers to any more is garbage: its fields
\* are put back to those of a new breaker.
FetchReturn(c) ==
    /\ callpc[c] = "wait"
    /\ wgWait(c)
    /\ ret' = [ret EXCEPT ![c] = Classify(allContents[c], errors[c])]
    /\ callpc' = [callpc EXCEPT ![c] = "returned"]
    /\ LET left == [task EXCEPT ![c] =
                      [p \in Providers |->
                         IF task[c][p].pc = "done"
                         THEN IdleTask ELSE task[c][p]]]
       IN  /\ task' = left
           /\ heap' = [b \in BreakerIds |->
                         IF Reachable(b, left)
                         THEN heap[b] ELSE NewCircuitBreaker]
           /\ streak' = [b \in BreakerIds |->
                           IF Reachable(b, left) THEN streak[b] ELSE 0]
    /\ allContents' = [allContents EXCEPT ![c] = <<>>]
    /\ errors' = [errors EXCEPT ![c] = <<>>]
    /\ UNCHANGED <<searchVars, applyVars, unitVars, adapters, callers, circuitBreakers, created>>

\* halfOpenTimeout seconds pass: every recorded failure ages.
Age(cb) ==
    [cb EXCEPT !.sinceLastFailure =
        IF @ + halfOpenTimeout >= ResetTimeout THEN ResetTimeout
        ELSE @ + halfOpenTimeout]

\* Time passes.
Tick ==
    /\ \E b \in BreakerIds : heap[b].sinceLastFailure < ResetTimeout
    /\ heap' = [b \in BreakerIds |-> Age(heap[b])]
    /\ UNCHANGED <<searchVars, applyVars, unitVars, adapters, callers, circuitBreakers, created, streak, callpc, task,
                   allContents, errors, ret>>

Next ==
    \/ \E c \in Calls : FetchNoAdapters(c)
    \/ \E c \in Calls : FetchFanOut(c)
    \/ \E c \in Calls, p \in Providers : GetCircuitBreakerRead(c, p)
    \/ \E c \in Calls, p \in Providers : GetCircuitBreakerStore(c, p)
    \/ \E c \in Calls, p \in Providers : ExecuteGetState(c, p)
    \/ \E c \in Calls, p \in Providers : ExecuteOpen(c, p)
    \/ \E c \in Calls, p \in Providers : ExecuteTransition(c, p)
    \/ \E c \in Calls, p \in Providers : ExecuteFailure(c, p)
    \/ \E c \in Calls, p \in Providers : ExecuteSuccess(c, p)
    \/ \E c \in Calls, p \in Providers : TaskMerge(c, p)
    \/ \E c \in Calls : FetchReturn(c)
    \/ Tick

Spec == Init /\ [][Next]_vars

(* -------------------------- ContentService.Search --------------------- *)

\* The goroutine that runs Search: caller 1 of the provider service.
Searcher == 1

fetchVars == <<adapters, callers, circuitBreakers, heap, created, streak, task,
               allContents, errors, ret>>

SearchInit ==
    /\ adapters \in SearchRegistrations
    /\ callers = {Searcher}
    /\ NoFetch
    /\ spc = "idle"
    /\ store \in SavedRows
    /\ NoSearch
    /\ NoApplication
    /\ NoUnits

\* The handler calls Search with a request.
SearchCall ==
    /\ spc = "idle"
    /\ \E r \in SearchRequests : req' = r
    /\ spc' = "norm"
    /\ cacheKey' = <<>>
    /\ resp' = NoResponse
    /\ warned' = FALSE
    /\ UNCHANGED <<fetchVars, callpc, found, cache, fresh, store, dbDown,
                   applyVars, unitVars>>

\* Search: NormalizePagination, the default sort order, generateCacheKey.
SearchNormalize ==
    /\ spc = "norm"
    /\ req' = NormalizeSortOrder(NormalizePagination(req))
    /\ cacheKey' = generateCacheKey(req')
    /\ spc' = "get"
    /\ UNCHANGED <<fetchVars, warned, callpc, found, resp, cache, fresh, store, dbDown,
                   applyVars, unitVars>>

\* Search: s.cache.Get; on a hit the page of the cached records is the
\* response, on a miss the call of FetchFromAllProviders is next.
SearchCacheGet ==
    /\ spc = "get"
    /\ IF cacheKey \in DOMAIN cache
       THEN LET cached == cache[cacheKey]
                paged == paginateCachedResults(cached, ToInt(req.page),
                                               req.pageSize)
            IN  /\ resp' = IF paged.panic THEN ErrorResponse("panic")
                           ELSE Response(paged.items, Len(cached), req)
                /\ spc' = "idle"
                /\ UNCHANGED callpc
       ELSE /\ spc' = "fetch"
            /\ callpc' = [callpc EXCEPT ![Searcher] = "idle"]
            /\ UNCHANGED resp
    /\ UNCHANGED <<fetchVars, warned, req, cacheKey, found, cache, fresh, store, dbDown,
                   applyVars, unitVars>>

\* Search: FetchFromAllProviders has returned; the check of its error.
SearchFetched ==
    /\ spc = "fetch"
    /\ callpc[Searcher] = "returned"
    /\ IF isProviderFailure(ret[Searcher].contents, ret[Searcher].err)
       THEN /\ resp' = ErrorResponse("PROVIDER_ERROR")
            /\ spc' = "idle"
       ELSE /\ spc' = "upsert"
            /\ UNCHANGED resp
    /\ UNCHANGED <<fetchVars, warned, callpc, req, cacheKey, found, cache, fresh, store,
                   dbDown, applyVars, unitVars>>

\* A Search that goes on after a failed BatchCreateOrUpdate.
SearchUpsert_IgnoresError ==
    /\ spc = "upsert"
    /\ store' = IF dbDown THEN store
                ELSE BatchCreateOrUpdate(store, ret[Searcher].contents)
    /\ fresh' = IF store' = store THEN fresh ELSE {}
    /\ spc' = "read"
    /\ UNCHANGED <<fetchVars, warned, callpc, req, cacheKey, found, resp, cache, dbDown,
                   applyVars, unitVars>>

\* Search: the scores, then s.repo.BatchCreateOrUpdate in one transaction.
SearchUpsert ==
    /\ spc = "upsert"
    /\ IF dbDown
       THEN /\ resp' = ErrorResponse("DATABASE_ERROR")
            /\ spc' = "idle"
            /\ UNCHANGED <<store, fresh>>
       ELSE /\ store' = BatchCreateOrUpdate(store, ret[Searcher].contents)
            /\ fresh' = IF store' = store THEN fresh ELSE {}
            /\ spc' = "read"
            /\ UNCHANGED resp
    /\ UNCHANGED <<fetchVars, warned, callpc, req, cacheKey, found, cache, dbDown,
                   applyVars, unitVars>>

\* Search: s.repo.Search.
SearchRepoSearch ==
    /\ spc = "read"
    /\ IF dbDown
       THEN /\ resp' = ErrorResponse("DATABASE_ERROR")
            /\ spc' = "idle"
            /\ UNCHANGED found
       ELSE /\ found' = RepoSearch(store, req)
            /\ spc' = "set"
            /\ UNCHANGED resp
    /\ UNCHANGED <<fetchVars, warned, callpc, req, cacheKey, cache, fresh, store, dbDown,
                   applyVars, unitVars>>

\* A Search that fails when the cache write does.
SearchCacheSet_FailsOnCacheError ==
    /\ spc = "set"
    /\ \E failed \in BOOLEAN :
         IF failed
         THEN /\ warned' = TRUE
              /\ resp' = ErrorResponse("CACHE_ERROR")
              /\ UNCHANGED <<cache, fresh>>
         ELSE /\ cache' = [k \in DOMAIN cache \cup {cacheKey} |->
                            IF k = cacheKey THEN found.contents ELSE cache[k]]
              /\ fresh' = fresh \cup {cacheKey}
              /\ resp' = Response(found.contents, found.total, req)
              /\ UNCHANGED warned
    /\ found' = [contents |-> <<>>, total |-> 0]
    /\ spc' = "idle"
    /\ UNCHANGED <<fetchVars, callpc, req, cacheKey, store, dbDown, applyVars, unitVars>>

\* Search: s.cache.Set(ctx, cacheKey, contents, 5*time.Minute), whose error
\* is logged and dropped, and the response.
SearchCacheSet ==
    /\ spc = "set"
    /\ \E failed \in BOOLEAN :
         IF failed
         THEN /\ warned' = TRUE
              /\ UNCHANGED <<cache, fresh>>
         ELSE /\ cache' = [k \in DOMAIN cache \cup {cacheKey} |->
                            IF k = cacheKey THEN found.contents ELSE cache[k]]
              /\ fresh' = fresh \cup {cacheKey}
              /\ UNCHANGED warned
    /\ resp' = Response(found.contents, found.total, req)
    /\ found' = [contents |-> <<>>, total |-> 0]
    /\ spc' = "idle"
    /\ UNCHANGED <<fetchVars, callpc, req, cacheKey, store, dbDown, applyVars, unitVars>>

\* The time to live of an entry ends: Get will not find it.
CacheExpire ==
    /\ \E k \in DOMAIN cache :
         /\ cache' = [j \in DOMAIN cache \ {k} |-> cache[j]]
         /\ fresh' = fresh \ {k}
    /\ UNCHANGED <<fetchVars, warned, callpc, spc, req, cacheKey, found, resp, store,
                   dbDown, applyVars, unitVars>>

\* The database goes down, or comes back.
DbFlip ==
    /\ spc # "direct"
    /\ dbDown' = ~dbDown
    /\ UNCHANGED <<fetchVars, warned, callpc, spc, req, cacheKey, found, resp, cache,
                   fresh, store, applyVars, unitVars>>

SearchNext ==
    \/ SearchCall
    \/ SearchNormalize
    \/ SearchCacheGet
    \/ \E c \in Calls : FetchNoAdapters(c)
    \/ \E c \in Calls : FetchFanOut(c)
    \/ \E c \in Calls, p \in Providers : GetCircuitBreakerRead(c, p)
    \/ \E c \in Calls, p \in Providers : GetCircuitBreakerStore(c, p)
    \/ \E c \in Calls, p \in Providers : ExecuteGetState(c, p)
    \/ \E c \in Calls, p \in Providers : ExecuteOpen(c, p)
    \/ \E c \in Calls, p \in Providers : ExecuteTransition(c, p)
    \/ \E c \in Calls, p \in Providers : ExecuteFailure(c, p)
    \/ \E c \in Calls, p \in Providers : ExecuteSuccess(c, p)
    \/ \E c \in Calls, p \in Providers : TaskMerge(c, p)
    \/ \E c \in Calls : FetchReturn(c)
    \/ Tick
    \/ SearchFetched
    \/ SearchUpsert
    \/ SearchRepoSearch
    \/ SearchCacheSet
    \/ CacheExpire
    \/ DbFlip

SearchSpec == SearchInit /\ [][SearchNext]_vars

(* ------------------- the functions of Search, applied ----------------- *)

\* Nothing of the services runs while a function is applied.
NoService ==
    /\ adapters = {}
    /\ callers = {}
    /\ NoFetch
    /\ spc = "direct"
    /\ store = {}
    /\ NoSearch

\* Requests of any query, type filter, sort key and sort order.
KeyRequests ==
    [query : {<<"go">>, <<"go", ":", "video">>},
     contentType : {NoType, <<"all">>, <<"video">>},
     page : {DefaultPage}, pageSize : {DefaultPageSize},
     sortBy : {<<>>, <<"score">>, <<"created_at">>, <<"all", ":", "score">>},
     sortOrder : {<<>>, <<"asc">>, <<"desc">>, <<"up">>}]

KeyInit ==
    /\ NoService
    /\ args \in KeyRequests \X KeyRequests
    /\ result = <<>>
    /\ NoUnits

\* Search computes the cache keys of two requests.
ApplyGenerateCacheKey ==
    /\ result = <<>>
    /\ result' =
         <<generateCacheKey(NormalizeSortOrder(NormalizePagination(args[1]))),
           generateCacheKey(NormalizeSortOrder(NormalizePagination(args[2])))>>
    /\ UNCHANGED <<fetchVars, callpc, searchVars, unitVars, args>>

KeyNext == ApplyGenerateCacheKey

KeySpec == KeyInit /\ [][KeyNext]_vars

\* 2^62 + 1 and the largest int, 2^63 - 1.
LargePages ==
    {<<1, 0, 0, Digit \div 4>>,
     <<Digit - 1, Digit - 1, Digit - 1, Digit \div 2 - 1>>}

PageArgs ==
    [cached : {RecordsOf("A", n) : n \in 0..3},
     page : {ToInt(p) : p \in 1..3} \cup LargePages,
     pageSize : {1, 2, 3, 4, MaxPageSize}]

PageInit ==
    /\ NoService
    /\ args \in PageArgs
    /\ result = <<>>
    /\ NoUnits

\* paginateCachedResults is called.
ApplyPaginateCachedResults ==
    /\ result = <<>>
    /\ result' =
         <<paginateCachedResults(args.cached, args.page, args.pageSize)>>
    /\ UNCHANGED <<fetchVars, callpc, searchVars, unitVars, args>>

PageNext == ApplyPaginateCachedResults

PageSpec == PageInit /\ [][PageNext]_vars

(* ------------------ BatchCreateOrUpdate, row by row ------------------- *)

\* The largest ID the sequence of the table hands out.
MaxID == 4

\* The longest batch.
MaxBatch == 2

\* Natural keys (ProviderID, Provider): two providers that use the same
\* provider id, and a second id of one of them.
NaturalKeys == {<<"1", "A">>, <<"1", "B">>, <<"2", "A">>}

\* Two settings of the fields a provider may send for a record.
FieldValues ==
    {[title |-> <<"Original">>, type |-> <<"video">>, views |-> 100,
      likes |-> 10, readingTime |-> 0, reactions |-> 0, score |-> 5],
     [title |-> <<"Updated">>, type |-> <<"text">>, views |-> 0,
      likes |-> 0, readingTime |-> 5, reactions |-> 10, score |-> 10]}

\* domain.Content; ID 0 is a content that no row was made for yet.
Content(id, key, f) ==
    [id |-> id, providerID |-> key[1], provider |-> key[2], title |-> f.title,
     type |-> f.type, views |-> f.views, likes |-> f.likes,
     readingTime |-> f.readingTime, reactions |-> f.reactions,
     score |-> f.score]

Contents == {Content(0, k, f) : k \in NaturalKeys, f \in FieldValues}

Batches ==
    UNION {[1..n -> Contents] : n \in 0..MaxBatch}

\* tx.Where("provider_id = ? AND provider = ?", ...): the matching rows.
Where(rows, content) ==
    {r \in rows : r.providerID = content.providerID
                  /\ r.provider = content.provider}

\* An update that leaves the score as it was.
Updates_WithoutScore(existing, content) ==
    [existing EXCEPT !.title = content.title, !.type = content.type,
                     !.views = content.views, !.likes = content.likes,
                     !.readingTime = content.readingTime,
                     !.reactions = content.reactions]

\* tx.Model(&existing).Updates(updateData): the row with the seven fields of
\* updateData taken from the content.
Updates(existing, content) ==
    [existing EXCEPT !.title = content.title, !.type = content.type,
                     !.views = content.views, !.likes = content.likes,
                     !.readingTime = content.readingTime,
                     !.reactions = content.reactions,
                     !.score = content.score]

\* tx.Create(content) can succeed: the primary key the content carries, if
\* any, is free, and so is its natural key (uniqueIndex idx_provider_content).
CanCreate(rows, content) ==
    /\ \A r \in rows : r.id # content.id
    /\ \A r \in rows : ~(r.providerID = content.providerID
                         /\ r.provider = content.provider)

StoreInit ==
    /\ NoService
    /\ NoApplication
    /\ NoUnits

\* BatchCreateOrUpdate is called, with new contents or once more with the
\* contents of the call before: db.Transaction begins.
BatchBegin ==
    /\ tx.pc = "none"
    /\ \E contents \in Batches \cup {batch} :
         /\ nextID + Len(contents) <= MaxID + 1
         /\ batch' = contents
         /\ tx' = [pc |-> "loop", rows |-> table, pos |-> 1, err |-> NoError,
                   startID |-> nextID,
                   again |-> contents = batch /\ txErr = NoError]
    /\ txErr' = <<"pending">>
    /\ UNCHANGED <<fetchVars, callpc, searchVars, applyVars, cacheVars, breakerVars, table, nextID>>

\* One turn of the loop: the lookup of the content's natural key, then the
\* update of the row found or the creation of a row. Each statement can fail.
BatchIteration ==
    /\ tx.pc = "loop"
    /\ tx.pos <= Len(batch)
    /\ LET content == batch[tx.pos]
           matching == Where(tx.rows, content)
           fail(text) == /\ tx' = [tx EXCEPT !.pc = "abort", !.err = text]
                         /\ UNCHANGED <<batch, nextID>>
       IN  \E failed \in BOOLEAN :
             IF failed
             THEN \E text \in {<<"failed to check existing content">>} \cup
                              (IF matching # {}
                               THEN {<<"failed to update content">>}
                               ELSE {<<"failed to create content">>}) :
                    fail(text)
             ELSE IF matching # {}
             THEN \E existing \in matching :
                    /\ tx' = [tx EXCEPT
                                !.rows = (tx.rows \ {existing})
                                           \cup {Updates(existing, content)},
                                !.pos = tx.pos + 1]
                    /\ batch' = [batch EXCEPT ![tx.pos].id = existing.id]
                    /\ UNCHANGED nextID
             ELSE IF ~CanCreate(tx.rows, content)
             THEN fail(<<"failed to create content">>)
             ELSE LET id == IF content.id = 0 THEN nextID ELSE content.id
                  IN  /\ tx' = [tx EXCEPT
                                  !.rows = tx.rows \cup
                                             {[content EXCEPT !.id = id]},
                                  !.pos = tx.pos + 1]
                      /\ batch' = [batch EXCEPT ![tx.pos].id = id]
                      /\ nextID' = IF id >= nextID THEN id + 1 ELSE nextID
    /\ UNCHANGED <<fetchVars, callpc, searchVars, applyVars, cacheVars, breakerVars, table, txErr>>

\* A transaction that commits what it wrote before the failure.
BatchRollback_KeepsWrites ==
    /\ tx.pc = "abort"
    /\ txErr' = tx.err
    /\ table' = tx.rows
    /\ tx' = [tx EXCEPT !.pc = "none"]
    /\ UNCHANGED <<fetchVars, callpc, searchVars, applyVars, cacheVars, breakerVars, batch, nextID>>

\* The function given to db.Transaction returned an error: the rollback, and
\* BatchCreateOrUpdate returns the error. The ID sequence of PostgreSQL keeps
\* the values it handed out, the one of SQLite is rolled back.
BatchRollback ==
    /\ tx.pc = "abort"
    /\ txErr' = tx.err
    /\ nextID' \in {nextID, tx.startID}
    /\ tx' = [tx EXCEPT !.pc = "none"]
    /\ UNCHANGED <<fetchVars, callpc, searchVars, applyVars, cacheVars, breakerVars, table, batch>>

\* The function returned nil: the commit, which can fail as well.
BatchCommit ==
    /\ tx.pc = "loop"
    /\ tx.pos > Len(batch)
    /\ \E failed \in BOOLEAN :
         IF failed
         THEN /\ txErr' = <<"commit failed">>
              /\ nextID' \in {nextID, tx.startID}
              /\ UNCHANGED table
         ELSE /\ txErr' = NoError
              /\ table' = tx.rows
              /\ UNCHANGED nextID
    /\ tx' = [tx EXCEPT !.pc = "none"]
    /\ UNCHANGED <<fetchVars, callpc, searchVars, applyVars, cacheVars, breakerVars, batch>>

StoreNext ==
    \/ BatchBegin
    \/ BatchIteration
    \/ BatchRollback
    \/ BatchCommit

StoreSpec == StoreInit /\ [][StoreNext]_vars

(* ------------------------- the in-memory cache ------------------------ *)

\* NewInMemory: the default time to live, 5 * time.Minute.
CacheTTL == 5

\* InMemoryCache.maxSize: 1000 in NewInMemory, 3 in TestInMemoryCache_Eviction.
maxSize == 1

CacheKeys == {"", "a"}

CacheValues == {RecordsOf("A", 1), RecordsOf("B", 1)}

\* The ttl arguments of Set: none (zero), and one minute.
TTLs == {0, 1}

\* A Set that takes a ttl of zero as it is.
EffectiveTTL_Zero(ttl) == ttl

\* Set: if ttl == 0 { ttl = c.ttl }
EffectiveTTL(ttl) == IF ttl = 0 THEN CacheTTL ELSE ttl

\* cacheItem{value, expiresAt: time.Now().Add(ttl)}. Time is kept relative to
\* now: expiresIn is expiresAt - time.Now() in minutes, -1 once the entry has
\* expired. The item carries its history as well: the ttl Set was called
\* with, and its age, the minutes since that Set, counted until the entry
\* has expired.
cacheItem(value, ttl, effective) ==
    [value |-> value, expiresIn |-> effective, ttl |-> ttl, age |-> 0]

\* The item a minute later.
Aged(item) ==
    [item EXCEPT !.expiresIn = IF @ < 0 THEN -1 ELSE @ - 1,
                 !.age = IF item.expiresIn < 0 THEN @ ELSE @ + 1]

\* time.Now().After(item.expiresAt)
hasExpiredItem(item) == item.expiresIn < 0

isCacheFullLocked == Cardinality(DOMAIN data) >= maxSize

\* The keys the loop of evictOldestEntryLocked can end with: the entries that
\* expire first, in whatever order the map is walked.
OldestKeys ==
    {k \in DOMAIN data :
       \A j \in DOMAIN data : data[k].expiresIn <= data[j].expiresIn}

\* The keys Set deletes before it stores: one of the oldest when the cache is
\* full, unless that key is the empty string.
Evicted ==
    IF isCacheFullLocked
    THEN {{k} \ {""} : k \in OldestKeys}
    ELSE {{}}

Without(f, keys) == [k \in DOMAIN f \ keys |-> f[k]]

With(f, key, v) == [k \in DOMAIN f \cup {key} |-> IF k = key THEN v ELSE f[k]]

notCacheVars ==
    <<fetchVars, callpc, searchVars, applyVars, storeVars, breakerVars>>

CacheInit ==
    /\ NoService
    /\ NoApplication
    /\ NoUnits

\* InMemoryCache.Set, under the write lock.
CacheSet(key, value, ttl) ==
    /\ \E gone \in Evicted :
         LET item == cacheItem(value, ttl, EffectiveTTL(ttl))
         IN  /\ data' = With(Without(data, gone), key, item)
             /\ live' = With(Without(live, gone), key, item)
    /\ UNCHANGED <<notCacheVars, getter>>

\* InMemoryCache.Delete
CacheDelete(key) ==
    /\ data' = Without(data, {key})
    /\ live' = Without(live, {key})
    /\ UNCHANGED <<notCacheVars, getter>>

\* InMemoryCache.Clear
CacheClear ==
    /\ data' = <<>>
    /\ live' = <<>>
    /\ UNCHANGED <<notCacheVars, getter>>

\* InMemoryCache.Close
CacheClose ==
    /\ data' = <<>>
    /\ live' = <<>>
    /\ UNCHANGED <<notCacheVars, getter>>

\* Get: the read of c.data[key] under the read lock.
GetRead(g, key) ==
    /\ getter[g].pc = "idle"
    /\ getter' = [getter EXCEPT ![g] =
                    [pc |-> "read", key |-> key,
                     exists |-> key \in DOMAIN data,
                     item |-> IF key \in DOMAIN data THEN <<data[key]>>
                              ELSE <<>>,
                     found |-> FALSE, value |-> <<>>]]
    /\ UNCHANGED <<notCacheVars, data, live>>

\* Get: no entry was read, or hasExpiredItem of the entry read; Get returns
\* unless it has to delete the entry.
GetCheck(g) ==
    /\ getter[g].pc = "read"
    /\ getter' = [getter EXCEPT ![g] =
                    IF ~getter[g].exists
                    THEN NoGet
                    ELSE IF hasExpiredItem(getter[g].item[1])
                    THEN [@ EXCEPT !.pc = "delete"]
                    ELSE [NoGet EXCEPT !.found = TRUE,
                                       !.value = getter[g].item[1].value]]
    /\ UNCHANGED <<notCacheVars, data, live>>

\* Get: delete(c.data, key) under the write lock, taken anew.
GetDelete(g) ==
    /\ getter[g].pc = "delete"
    /\ data' = Without(data, {getter[g].key})
    /\ getter' = [getter EXCEPT ![g] = NoGet]
    /\ UNCHANGED <<notCacheVars, live>>

\* A minute passes.
CacheTick ==
    /\ data' = [k \in DOMAIN data |-> Aged(data[k])]
    /\ live' = [k \in DOMAIN live |-> Aged(live[k])]
    /\ getter' = [g \in Getters |->
                    [getter[g] EXCEPT
                       !.item = [i \in DOMAIN @ |-> Aged(@[i])]]]
    /\ UNCHANGED notCacheVars

CacheNext ==
    \/ \E key \in CacheKeys, value \in CacheValues, ttl \in TTLs :
         CacheSet(key, value, ttl)
    \/ \E key \in CacheKeys : CacheDelete(key)
    \/ CacheClear
    \/ CacheClose
    \/ \E g \in Getters, key \in CacheKeys : GetRead(g, key)
    \/ \E g \in Getters : GetCheck(g)
    \/ \E g \in Getters : GetDelete(g)
    \/ CacheTick

CacheSpec == CacheInit /\ [][CacheNext]_vars

(* -------------------- one circuit breaker, used directly -------------- *)

\* The breaker under test, and the provider name that stands for it in task.
TheBreaker == <<"A", 1>>

\* The most failed calls the tally counts: twice maxFailures - 1.
MaxTally == 2 * (MaxFailures - 1)

\* cb := NewCircuitBreaker(5, 30*time.Second), shared by the goroutines.
BreakerInit ==
    /\ adapters = {}
    /\ callers = Calls
    /\ circuitBreakers = [p \in Providers |-> IF p = "A" THEN TheBreaker ELSE Nil]
    /\ heap = [b \in BreakerIds |-> NewCircuitBreaker]
    /\ created = {TheBreaker}
    /\ streak = [b \in BreakerIds |-> 0]
    /\ callpc = [c \in Calls |-> "idle"]
    /\ task = [c \in Calls |-> [p \in Providers |-> IdleTask]]
    /\ allContents = [c \in Calls |-> <<>>]
    /\ errors = [c \in Calls |-> <<>>]
    /\ ret = [c \in Calls |-> NoResult]
    /\ spc = "direct"
    /\ store = {}
    /\ NoSearch
    /\ NoApplication
    /\ NoUnits

notBreakerVars == <<searchVars, applyVars, storeVars, cacheVars, adapters,
                    callers, circuitBreakers, created, callpc, allContents,
                    errors, ret>>

\* Goroutine c calls cb.Execute(ctx, fn).
ExecuteCall(c) ==
    /\ task[c]["A"].pc = "none"
    /\ task' = [task EXCEPT ![c]["A"] =
                  [IdleTask EXCEPT !.pc = "exec", !.cb = TheBreaker]]
    /\ UNCHANGED <<notBreakerVars, heap, streak, breakerVars>>

\* Execute returns to goroutine c.
ExecuteReturn(c) ==
    /\ task[c]["A"].pc = "ret"
    /\ task' = [task EXCEPT ![c]["A"] = IdleTask]
    /\ tally' = IF heap[TheBreaker].state # CircuitStateClosed THEN 0
                ELSE IF task[c]["A"].cbErr # NoError /\ tally < MaxTally
                THEN tally + 1
                ELSE tally
    /\ UNCHANGED <<notBreakerVars, heap, streak, observed>>

\* cb.GetState()
BreakerGetState ==
    /\ observed' = <<heap[TheBreaker].state>>
    /\ UNCHANGED <<notBreakerVars, heap, streak, task, tally>>

\* cb.Reset()
BreakerReset ==
    /\ heap' = [heap EXCEPT ![TheBreaker] = Reset(@)]
    /\ streak' = [streak EXCEPT ![TheBreaker] = 0]
    /\ tally' = 0
    /\ UNCHANGED <<notBreakerVars, task, observed>>

BreakerNext ==
    \/ \E c \in Calls : ExecuteCall(c)
    \/ \E c \in Calls : ExecuteGetState(c, "A")
    \/ \E c \in Calls : ExecuteOpen(c, "A")
    \/ \E c \in Calls : ExecuteTransition(c, "A")
    \/ \E c \in Calls : ExecuteFailure(c, "A")
    \/ \E c \in Calls : ExecuteSuccess(c, "A")
    \/ \E c \in Calls : ExecuteReturn(c)
    \/ BreakerGetState
    \/ BreakerReset
    \/ Tick

BreakerSpec == BreakerInit /\ [][BreakerNext]_vars

(* ------------------------- what the claims use ------------------------ *)

Records == {<<p, i>> : p \in Providers, i \in 1..MaxRecords}

Count(seq, r) == Cardinality({i \in DOMAIN seq : seq[i] = r})

Contains(text, piece) == \E i \in DOMAIN text : text[i] = piece

\* Execute has returned to the goroutine of caller c for provider p.
Returned(c, p) == task[c][p].pc \in {"ret", "done"}

Succeeded(c, p) == Returned(c, p) /\ task[c][p].cbErr = NoError

Failed(c, p) == Returned(c, p) /\ task[c][p].cbErr # NoError

\* The step in which FetchFromAllProviders returns to caller c.
Returns(c) == callpc[c] = "wait" /\ callpc'[c] = "returned"

\* The step in which fn() fails, or succeeds, inside Execute.
FailStep(c, p) ==
    /\ task[c][p].pc = "fn"
    /\ task'[c][p].pc = "ret"
    /\ task'[c][p].cbErr # NoError

SuccessStep(c, p) ==
    /\ task[c][p].pc = "fn"
    /\ task'[c][p].pc = "ret"
    /\ task'[c][p].cbErr = NoError

\* The labeled failures of provider p in a failure list.
LabelsOf(errs, p) == {i \in DOMAIN errs : errs[i][2] = p}

\* All goroutines of caller c are finished and wg.Wait() is about to return.
AtBarrier(c) ==
    /\ callpc[c] = "wait"
    /\ \A p \in adapters : task[c][p].pc = "done"

\* All the rows that match the request, in its sort order.
AllMatching(rows, r) ==
    OrderByScore(Matching(rows, r),
                 IF r.sortOrder = <<"asc">> THEN "ASC" ELSE "DESC")

\* The step in which Search writes the cache and returns.
CacheSetStep == spc = "set" /\ spc' = "idle"

\* The step in which Search returns the page of a cached entry.
CacheHitStep == spc = "get" /\ spc' = "idle"

(* ------------------------------- claims ------------------------------- *)

\* C1: whenever at least one provider's task succeeds, whatever it returns
\* and however many siblings fail, FetchFromAllProviders returns a nil error
\* and exactly the records of the successful providers, none lost or doubled.
C1_PartialSuccessReturnsUnion ==
    [][\A c \in Calls :
         (Returns(c) /\ \E p \in adapters : Succeeded(c, p)) =>
            /\ ret'[c].err = NoError
            /\ \A r \in Records :
                 Count(ret'[c].contents, r) =
                    IF Succeeded(c, r[1])
                    THEN Count(task[c][r[1]].contents, r) ELSE 0]_vars

\* C2: with N >= 1 providers registered and every task failed (adapter error
\* or breaker rejection), FetchFromAllProviders returns a nil record set and
\* an error whose text contains "all providers failed".
C2_AllFailedReturnsAggregateError ==
    [][\A c \in Calls :
         (Returns(c) /\ adapters # {} /\ \A p \in adapters : Failed(c, p)) =>
            /\ ret'[c].isNil
            /\ ret'[c].contents = <<>>
            /\ ret'[c].err # NoError
            /\ Contains(ret'[c].err, "all providers failed")]_vars

C2_Witness ==
    \E c \in Calls :
       /\ callpc[c] = "returned"
       /\ ret[c].isNil
       /\ ret[c].err = AggregateError(<<LabelOpen("A"),
                                        LabelFailed("B", <<"provider error">>)>>)

\* C3: with no provider registered, FetchFromAllProviders returns an empty,
\* non-nil record set and a nil error, starts no goroutine and creates or
\* touches no circuit breaker.
C3_NoProvidersReturnsEmpty ==
    adapters = {} =>
       /\ created = {}
       /\ \A p \in Providers : circuitBreakers[p] = Nil
       /\ \A b \in BreakerIds : heap[b] = NewCircuitBreaker
       /\ \A c \in Calls, p \in Providers : task[c][p] = IdleTask
       /\ \A c \in Calls :
            callpc[c] = "returned" =>
               /\ ret[c].err = NoError
               /\ ~ret[c].isNil
               /\ ret[c].contents = <<>>

C3_Witness ==
    /\ adapters = {}
    /\ \E c \in Calls : callpc[c] = "returned" /\ ret[c] = EmptyResult

\* C4: a Closed breaker is Open after maxFailures failed Execute calls in a
\* row, and still Closed after fewer than maxFailures.
C4_OpensAtMaxFailures ==
    /\ [](\A b \in created :
            heap[b].state = CircuitStateClosed => streak[b] < MaxFailures)
    /\ [][\A c \in Calls, p \in Providers :
            (FailStep(c, p) /\ heap[task[c][p].cb].state = CircuitStateClosed)
            => LET b == task[c][p].cb
               IN  /\ streak'[b] = streak[b] + 1
                   /\ heap'[b].state =
                        IF streak'[b] >= MaxFailures
                        THEN CircuitStateOpen ELSE CircuitStateClosed]_vars

C4_Witness ==
    \E b \in created :
       /\ heap[b].state = CircuitStateOpen
       /\ streak[b] = MaxFailures
       /\ heap[b].failureCount = MaxFailures

\* C5: an Execute on an Open breaker less than resetTimeout after the last
\* failure returns the circuit-open error, does not invoke the wrapped
\* function and leaves state, both counters and the last-failure time as
\* they were.
C5_OpenRejectsWithoutEffect ==
    /\ [](\A c \in Calls, p \in Providers :
            task[c][p].rejected =>
               /\ task[c][p].invoked = 0
               /\ task[c][p].cbErr = ErrCircuitOpen)
    /\ [][\A c \in Calls, p \in Providers :
            LET b == task[c][p].cb
            IN  ( /\ task[c][p].pc = "open"
                  /\ task'[c][p] # task[c][p]
                  /\ heap[b].state = CircuitStateOpen
                  /\ heap[b].sinceLastFailure < ResetTimeout )
                => /\ task'[c][p].rejected
                   /\ task'[c][p].pc = "ret"
                   /\ task'[c][p].cbErr = ErrCircuitOpen
                   /\ task'[c][p].invoked = 0
                   /\ heap' = heap
                   /\ streak' = streak]_vars

C5_Witness ==
    \E c \in Calls, p \in Providers :
       /\ task[c][p].rejected
       /\ task[c][p].pc = "ret"
       /\ heap[task[c][p].cb].state = CircuitStateOpen
       /\ heap[task[c][p].cb].sinceLastFailure < ResetTimeout

\* C6: once resetTimeout has passed since the last failure, Execute on an
\* Open breaker moves it to HalfOpen with both counters 0 and invokes the
\* function; in HalfOpen one success leaves it HalfOpen, the second success
\* in a row closes it with both counters 0, and one failure reopens it with
\* failure count 1 and success count 0.
C6_HalfOpenProbe ==
    [][\A c \in Calls, p \in Providers :
         LET b == task[c][p].cb
             halfOpen == heap[b].state = CircuitStateHalfOpen
         IN  /\ ( /\ task[c][p].pc = "open"
                  /\ task'[c][p] # task[c][p]
                  /\ heap[b].sinceLastFailure >= ResetTimeout )
                => (task'[c][p].pc = "trans" /\ ~task'[c][p].rejected)
             /\ ( /\ task[c][p].pc = "trans"
                  /\ task'[c][p] # task[c][p]
                  /\ heap[b].state = CircuitStateOpen )
                => /\ task'[c][p].pc = "fn"
                   /\ heap'[b].state = CircuitStateHalfOpen
                   /\ heap'[b].failureCount = 0
                   /\ heap'[b].successCount = 0
             /\ (task[c][p].pc = "fn" /\ task'[c][p] # task[c][p])
                => task'[c][p].invoked = task[c][p].invoked + 1
             /\ (SuccessStep(c, p) /\ halfOpen /\ heap[b].successCount = 0)
                => /\ heap'[b].state = CircuitStateHalfOpen
                   /\ heap'[b].successCount = 1
                   /\ heap'[b].failureCount = 0
             /\ (SuccessStep(c, p) /\ halfOpen /\ heap[b].successCount = 1)
                => /\ heap'[b].state = CircuitStateClosed
                   /\ heap'[b].successCount = 0
                   /\ heap'[b].failureCount = 0
             /\ (FailStep(c, p) /\ halfOpen)
                => /\ heap'[b].state = CircuitStateOpen
                   /\ heap'[b].failureCount = 1
                   /\ heap'[b].successCount = 0]_vars

C6_Witness ==
    \E b \in created :
       /\ heap[b].state = CircuitStateHalfOpen
       /\ heap[b].successCount = 1

\* C7: getCircuitBreaker never creates or hands out two distinct breakers
\* for one provider name, also when the first calls for it are concurrent.
C7_OneBreakerPerName ==
    \A b1 \in created, b2 \in created : b1[1] = b2[1] => b1 = b2

\* C8: Execute returns the circuit-open error exactly when the wrapped
\* function was not invoked, and the orchestrator classifies a task as a
\* breaker rejection exactly when Execute rejected it.
C8_OpenErrorIffNotInvoked ==
    \A c \in Calls, p \in Providers :
       /\ Returned(c, p) =>
            (task[c][p].cbErr = ErrCircuitOpen <=> task[c][p].invoked = 0)
       /\ task[c][p].pc = "done" =>
            (task[c][p].class = "open" <=> task[c][p].rejected)

\* C9: FetchFromAllProviders returns, and classifies the merged records and
\* failures, only when every goroutine it started has finished Execute and
\* its append; none is still running after the return.
C9_ReturnsAfterAllTasks ==
    /\ [](\A c \in Calls :
            callpc[c] # "wait" => \A p \in Providers : task[c][p].pc = "none")
    /\ [][\A c \in Calls :
            Returns(c) =>
               /\ \A p \in adapters : task[c][p].pc = "done"
               /\ ret'[c] = Classify(allContents[c], errors[c])]_vars

C9_Witness ==
    \E c \in Calls :
       /\ callpc[c] = "returned"
       /\ ret[c].err = NoError
       /\ \E i, j \in DOMAIN ret[c].contents :
            ret[c].contents[i][1] = "A" /\ ret[c].contents[j][1] = "B"

\* C10: in one FetchFromAllProviders call every registered provider's
\* breaker Execute is attempted exactly once, every admitted call invokes
\* its adapter exactly once and every successful task's records are merged,
\* whatever the sibling tasks did.
C10_SiblingsIsolated ==
    \A c \in Calls :
       /\ \A p \in Providers :
            /\ task[c][p].executed <= 1
            /\ task[c][p].invoked <= task[c][p].executed
            /\ p \notin adapters => task[c][p] = IdleTask
       /\ AtBarrier(c) =>
            \A p \in adapters :
               /\ task[c][p].executed = 1
               /\ task[c][p].invoked = IF task[c][p].rejected THEN 0 ELSE 1
               /\ Succeeded(c, p) =>
                    \A i \in 1..MaxRecords :
                       Count(allContents[c], <<p, i>>) =
                          Count(task[c][p].contents, <<p, i>>)
               /\ Failed(c, p) =>
                    \E i \in DOMAIN errors[c] : errors[c][i][2] = p

C10_Witness ==
    \E c \in Calls :
       /\ AtBarrier(c)
       /\ task[c]["A"].rejected
       /\ Succeeded(c, "B")
       /\ allContents[c] = RecordsOf("B", 1)

\* C11: when FetchFromAllProviders returns the aggregate error, the error
\* carries exactly one labeled cause, provider name plus cause, for each
\* provider whose task failed in that call and none for any other, and it is
\* returned only when the merged record set is empty and at least one failure
\* was recorded.
C11_AggregateCarriesEachCause ==
    [][\A c \in Calls :
         (Returns(c) /\ ret'[c].err # NoError) =>
            /\ Len(allContents[c]) = 0
            /\ Len(errors[c]) > 0
            /\ ret'[c].err = <<"all providers failed", ": ">> \o Flatten(errors[c])
            /\ \A p \in Providers :
                 IF Failed(c, p)
                 THEN \E i \in DOMAIN errors[c] :
                         /\ LabelsOf(errors[c], p) = {i}
                         /\ errors[c][i] =
                              <<"provider ", p, ": ">> \o task[c][p].cbErr
                 ELSE LabelsOf(errors[c], p) = {}]_vars

C11_Witness ==
    \E c \in Calls :
       /\ callpc[c] = "returned"
       /\ ret[c].err =
            <<"all providers failed", ": ",
              "provider ", "B", ": ", "provider error",
              "provider ", "A", ": ", "provider error">>

\* C12: a per-provider call that ends because the caller's context was
\* cancelled is a provider failure like any other: it is recorded on the
\* provider's breaker and in the failure list, FetchFromAllProviders returns
\* the "all providers failed" error when no records were merged and the
\* merged records with a nil error when another provider delivered records;
\* the cancellation itself is never the returned error.
C12_CancelledIsOrdinaryFailure ==
    [][\A c \in Calls :
         /\ \A p \in Providers :
              LET b == task[c][p].cb
                  cancelled == <<"context canceled">>
              IN  /\ (FailStep(c, p) /\ task'[c][p].cbErr = cancelled) =>
                        /\ heap'[b].sinceLastFailure = 0
                        /\ heap'[b].failureCount =
                             IF heap[b].state = CircuitStateHalfOpen
                             THEN 1 ELSE heap[b].failureCount + 1
                        /\ heap'[b].state =
                             IF \/ heap[b].state = CircuitStateHalfOpen
                                \/ heap[b].failureCount + 1 >= MaxFailures
                             THEN CircuitStateOpen ELSE heap[b].state
                  /\ ( /\ task[c][p].pc = "ret"
                       /\ task'[c][p].pc = "done"
                       /\ task[c][p].cbErr = cancelled ) =>
                        /\ errors'[c] =
                             Append(errors[c],
                                    <<"provider ", p, ": ", "context canceled">>)
                        /\ allContents'[c] = allContents[c]
                        /\ task'[c][p].class = "failed"
         /\ ( /\ Returns(c)
              /\ \E p \in adapters : task[c][p].cbErr = <<"context canceled">> )
            => IF Len(allContents[c]) = 0
               THEN /\ ret'[c].isNil
                    /\ ret'[c].err[1] = "all providers failed"
               ELSE /\ ret'[c].err = NoError
                    /\ ret'[c].contents = allContents[c]]_vars

C12_Witness ==
    \E c \in Calls :
       /\ callpc[c] = "returned"
       /\ ret[c].isNil
       /\ ret[c].err =
            <<"all providers failed", ": ",
              "provider ", "A", ": ", "context canceled">>
       /\ circuitBreakers["A"] # Nil
       /\ heap[circuitBreakers["A"]].failureCount >= 1

\* C13: with A and B registered, A returning records and B's adapter
\* failing, every call returns A's records with a nil error, raises the
\* failure count of B's breaker by exactly 1 and leaves A's at 0; after
\* maxFailures such calls B's breaker is Open, and within resetTimeout the
\* calls skip B's adapter and still return A's records with a nil error.
C13_FailingSiblingScenario ==
    /\ [](\A b \in created :
            /\ heap[b].state = CircuitStateClosed =>
                  heap[b].failureCount = streak[b]
            /\ streak[b] = MaxFailures => heap[b].state # CircuitStateClosed)
    /\ [][\A c \in Calls :
            adapters = {"A", "B"} =>
               LET a == task[c]["A"].cb
                   b == task[c]["B"].cb
               IN  /\ ( /\ Returns(c)
                        /\ Succeeded(c, "A")
                        /\ Len(task[c]["A"].contents) >= 1
                        /\ Failed(c, "B") )
                      => /\ ret'[c].err = NoError
                         /\ ret'[c].contents = task[c]["A"].contents
                   /\ (FailStep(c, "B") /\ heap[b].state = CircuitStateClosed)
                      => /\ heap'[b].failureCount = heap[b].failureCount + 1
                         /\ \A o \in BreakerIds \ {b} : heap'[o] = heap[o]
                   /\ SuccessStep(c, "A") => heap'[a].failureCount = 0
                   /\ ( /\ task[c]["B"].pc = "open"
                        /\ task'[c]["B"] # task[c]["B"]
                        /\ heap[b].sinceLastFailure < ResetTimeout )
                      => /\ task'[c]["B"].pc = "ret"
                         /\ task'[c]["B"].invoked = 0
                         /\ task'[c]["B"].cbErr # NoError]_vars

C13_Witness ==
    \E c \in Calls :
       /\ AtBarrier(c)
       /\ adapters = {"A", "B"}
       /\ Succeeded(c, "A")
       /\ allContents[c] = RecordsOf("A", 1)
       /\ task[c]["B"].rejected
       /\ task[c]["B"].invoked = 0
       /\ heap[task[c]["B"].cb].state = CircuitStateOpen
       /\ heap[task[c]["B"].cb].failureCount = MaxFailures
       /\ streak[task[c]["B"].cb] = MaxFailures
       /\ heap[task[c]["A"].cb].failureCount = 0

\* C14: on a cache miss that yields records, Search writes to the cache,
\* under the request's cache key, all the records that match the request in
\* their sort order, not the requested page alone, and returns the requested
\* page.
C14_CachesFullResultSet ==
    [][(CacheSetStep /\ found.total > 0) =>
          /\ cacheKey \in DOMAIN cache'
          /\ cache'[cacheKey] = AllMatching(store, req)
          /\ Len(cache'[cacheKey]) = found.total
          /\ resp'.err = "nil"
          /\ resp'.items = RepoSearch(store, req).contents]_vars

\* C15: a request served from the cache, the same request again or another
\* page of the same query, gets the total and the items the store would
\* return for it, as long as the store has not changed since the entry was
\* written.
C15_CacheServesWhatStoreWould ==
    [][(CacheHitStep /\ cacheKey \in fresh) =>
          /\ resp'.err = "nil"
          /\ resp'.total = RepoSearch(store, req).total
          /\ resp'.items = RepoSearch(store, req).contents]_vars

\* The elements of the cached list at the indices (p-1)*s up to min(p*s, n);
\* none when the page is one of the large ones, whose start is beyond any
\* list.
ExpectedPage(a) ==
    IF a.page \in LargePages THEN <<>>
    ELSE LET p == a.page[1]
             n == Len(a.cached)
         IN  SubSeq(a.cached, (p - 1) * a.pageSize + 1, Min(p * a.pageSize, n))

\* C16: for every cached list of length n, page p >= 1 and page size s >= 1,
\* paginateCachedResults returns the elements at the indices (p-1)*s up to
\* min(p*s, n) in their cached order: an empty page when (p-1)*s >= n, a
\* shorter last page when p*s > n, and never an out-of-range access.
C16_PaginateReturnsTheSlice ==
    result # <<>> =>
       /\ ~result[1].panic
       /\ result[1].items = ExpectedPage(args)

\* The same for the pages whose start and end are within the range of an int.
C16_SmallPages ==
    (result # <<>> /\ args.page \notin LargePages) =>
       /\ ~result[1].panic
       /\ result[1].items = ExpectedPage(args)

\* What a request asks the store for: the query text, the type filter ("all"
\* for none), the sort key the switch of repo.Search takes and the direction.
Effective(r) ==
    <<r.query,
      IF r.contentType \in {NoType, <<"all">>} THEN <<"all">> ELSE r.contentType,
      IF r.sortBy \in {<<"created_at">>, <<"popularity">>}
      THEN r.sortBy ELSE <<"score">>,
      IF r.sortOrder = <<"asc">> THEN <<"asc">> ELSE <<"desc">> >>

\* C17: the cache keys Search computes for two requests are the same when
\* the requests differ only in default-filled fields (type filter "all" or
\* absent, sort direction absent, invalid or "desc", sort key absent or
\* "score") and differ whenever query text, effective type filter, effective
\* sort key or effective sort direction differ.
C17_KeyByEffectiveFields ==
    result # <<>> =>
       (result[1] = result[2] <=> Effective(args[1]) = Effective(args[2]))

\* The part of C17 that holds: requests that differ only in the type filter
\* "all" or absent, or in the sort direction absent, invalid or "desc", have
\* the same key.
C17_TypeAndDirectionDefaults ==
    ( /\ result # <<>>
      /\ Effective(args[1]) = Effective(args[2])
      /\ args[1].sortBy = args[2].sortBy )
    => result[1] = result[2]

\* The step in which Search normalizes its request.
NormalizeStep == spc = "norm" /\ spc' = "get"

\* C18: after NormalizePagination Page >= 1 and 1 <= PageSize <= 100: a Page
\* <= 0 has become 1, a PageSize <= 0 has become 20, a PageSize > 100 has
\* become 100, valid values are as they were and a second normalization
\* changes nothing; Search normalizes before any cache, provider or store
\* access.
C18_NormalizedBeforeAnyAccess ==
    /\ [](spc \in {"get", "fetch", "upsert", "read", "set"} =>
            /\ req.page >= 1
            /\ req.pageSize >= 1
            /\ req.pageSize <= 100)
    /\ [](spc = "norm" =>
            /\ callpc[Searcher] \in {"idle", "returned"}
            /\ \A p \in Providers : task[Searcher][p].pc = "none")
    /\ [][(spc = "idle" /\ spc' # "idle") => spc' = "norm"]_vars
    /\ [][NormalizeStep =>
            /\ req'.page = IF req.page <= 0 THEN 1 ELSE req.page
            /\ req'.pageSize = IF req.pageSize <= 0 THEN 20
                               ELSE IF req.pageSize > 100 THEN 100
                               ELSE req.pageSize
            /\ NormalizePagination(req').page = req'.page
            /\ NormalizePagination(req').pageSize = req'.pageSize
            /\ req'.query = req.query
            /\ req'.contentType = req.contentType
            /\ UNCHANGED <<cache, store, fetchVars, callpc>>]_vars

C18_Witness ==
    /\ spc = "get"
    /\ req.page = 1
    /\ req.pageSize = 100

\* The step in which Search looks at what FetchFromAllProviders returned.
FetchedStep ==
    spc = "fetch" /\ callpc[Searcher] = "returned" /\ spc' # "fetch"

\* C19: on a cache miss where FetchFromAllProviders returns the
\* all-providers-failed error and no records, Search returns a provider
\* error and a nil response, does no store upsert, no store read and no cache
\* write, and serves no stored data.
C19_ProviderFailureSurfaces ==
    /\ [](spc \in {"upsert", "read", "set"} => ret[Searcher].err = NoError)
    /\ [][(FetchedStep /\ ret[Searcher].err # NoError) =>
            /\ ret[Searcher].err[1] = "all providers failed"
            /\ ret[Searcher].contents = <<>>
            /\ resp'.isNil
            /\ resp'.err = "PROVIDER_ERROR"
            /\ resp'.items = <<>>
            /\ spc' = "idle"
            /\ UNCHANGED <<store, cache, found>>]_vars

C19_Witness ==
    /\ spc = "idle"
    /\ resp.isNil
    /\ resp.err = "PROVIDER_ERROR"
    /\ ret[Searcher].err # NoError
    /\ store = {<<"B", 1>>, <<"B", 2>>}
    /\ cache = <<>>

\* The step in which BatchCreateOrUpdate returns to Search.
UpsertStep == spc = "upsert" /\ spc' # "upsert"

\* C20: if the store upsert of the fetched records fails, Search returns an
\* error, never a success response, and writes nothing to the cache for that
\* request.
C20_UpsertFailureIsFatal ==
    /\ [][(UpsertStep /\ dbDown) =>
            /\ resp'.isNil
            /\ resp'.err = "DATABASE_ERROR"
            /\ spc' = "idle"
            /\ UNCHANGED <<cache, store>>]_vars
    /\ [][(spc = "upsert" /\ spc' = "read") =>
            \A i \in DOMAIN ret[Searcher].contents :
               ret[Searcher].contents[i] \in store']_vars

C20_Witness ==
    /\ spc = "idle"
    /\ resp.isNil
    /\ resp.err = "DATABASE_ERROR"
    /\ ret[Searcher].contents = RecordsOf("A", 1)
    /\ <<"A", 1>> \notin store
    /\ cache = <<>>

\* C21: when the cache write that follows a successful fetch, upsert and
\* store read fails, Search logs it and still returns the page, the total and
\* the page count the store gave, with no error: the same response as when
\* the write succeeds. The failed write leaves the cache as it was.
C21_CacheWriteFailureIsSwallowed ==
    [][CacheSetStep =>
          /\ found = RepoSearch(store, req)
          /\ resp' = Response(RepoSearch(store, req).contents,
                              RepoSearch(store, req).total, req)
          /\ resp'.err = "nil"
          /\ (warned' => cache' = cache)]_vars

C21_Witness ==
    /\ spc = "idle"
    /\ warned
    /\ resp.err = "nil"
    /\ resp.total > 0
    /\ resp.items # <<>>
    /\ cacheKey \notin DOMAIN cache

SameKey(r, c) == r.providerID = c.providerID /\ r.provider = c.provider

\* The fields BatchCreateOrUpdate is to store for a content.
FieldsOf(c) ==
    [title |-> c.title, type |-> c.type, views |-> c.views, likes |-> c.likes,
     readingTime |-> c.readingTime, reactions |-> c.reactions,
     score |-> c.score]

\* The last content of the batch that has the natural key of content i.
LastOf(contents, i) ==
    contents[CHOOSE j \in DOMAIN contents :
               /\ SameKey(contents[j], contents[i])
               /\ \A k \in DOMAIN contents :
                    SameKey(contents[k], contents[i]) => k <= j]

\* The step in which BatchCreateOrUpdate returns nil.
CommitStep == tx.pc = "loop" /\ tx'.pc = "none" /\ txErr' = NoError

\* The step in which BatchCreateOrUpdate returns an error.
FailedBatchStep == tx.pc # "none" /\ tx'.pc = "none" /\ txErr' # NoError

\* C22: whatever BatchCreateOrUpdate calls were made, the table has at most
\* one row per natural key (ProviderID, Provider). A call that succeeds
\* leaves every row that was there under its ID and its natural key, sets the
\* title, type, counters and score of the rows whose keys are in the batch to
\* those of the batch, adds one row per key that was absent, and gives every
\* content the ID of its row. A call with the batch of the successful call
\* before leaves the table, every ID and the row count, as that call left it.
C22_UpsertByNaturalKey ==
    /\ [](\A r1, r2 \in table : (SameKey(r1, r2) \/ r1.id = r2.id) => r1 = r2)
    /\ [][CommitStep =>
            /\ \A r \in table : \E r2 \in table' :
                 /\ r2.id = r.id
                 /\ SameKey(r2, r)
                 /\ (\A i \in DOMAIN batch : ~SameKey(r, batch[i])) => r2 = r
            /\ \A i \in DOMAIN batch : \E r \in table' :
                 /\ SameKey(r, batch[i])
                 /\ FieldsOf(r) = FieldsOf(LastOf(batch, i))
                 /\ batch'[i].id = r.id
            /\ \A r2 \in table' :
                 (\E r \in table : SameKey(r, r2))
                    \/ (\E i \in DOMAIN batch : SameKey(r2, batch[i]))
            /\ (tx.again => table' = table)]_vars

C22_Witness ==
    /\ tx.pc = "none"
    /\ txErr = NoError
    /\ tx.again
    /\ Len(batch) = MaxBatch
    /\ ~SameKey(batch[1], batch[2])
    /\ \E r \in table : r.title = <<"Updated">> /\ r.id = 1
    /\ \E r \in table : r.title = <<"Original">> /\ r.id > 1

\* C23: BatchCreateOrUpdate is all or nothing. When the lookup, the update
\* or the creation of any record fails, no later record is touched, the call
\* returns an error and the table is as it was before the call; when the call
\* returns nil, every record of the batch is in the table.
C23_BatchIsAtomic ==
    /\ [](tx.pc = "abort" => tx.err # NoError)
    /\ [][(tx.pc = "abort" \/ tx.err # NoError) =>
            /\ table' = table
            /\ txErr' # NoError]_vars
    /\ [][FailedBatchStep => table' = table]_vars
    /\ [][CommitStep =>
            /\ tx.pos = Len(batch) + 1
            /\ \A i \in DOMAIN batch : \E r \in table' :
                 SameKey(r, batch[i]) /\ FieldsOf(r) = FieldsOf(LastOf(batch, i))]_vars
    /\ [](tx.pc # "none" => txErr = <<"pending">>)

C23_Witness ==
    /\ tx.pc = "none"
    /\ txErr = <<"failed to update content">>
    /\ tx.pos = MaxBatch
    /\ tx.rows # table
    /\ batch[1].id # 0
    /\ \A r \in table : ~SameKey(r, batch[1])

\* The items in the cache and the items the Gets under way have read.
Items ==
    {data[k] : k \in DOMAIN data}
       \cup {getter[g].item[1] : g \in {h \in Getters : getter[h].item # <<>>}}

\* The step in which Get decides on the entry it read.
Decides(g) == getter[g].pc = "read" /\ getter[g].exists /\ getter'[g].pc # "read"

C30_FreshEntryStaysUntilExpiry ==
    /\ \A k \in DOMAIN live :
         ~hasExpiredItem(live[k]) => (k \in DOMAIN data /\ data[k] = live[k])
    /\ Cardinality(DOMAIN data) <= maxSize

\* The state changes the breaker is to make.
AllowedEdges ==
    {<<CircuitStateClosed, CircuitStateOpen>>,
     <<CircuitStateOpen, CircuitStateHalfOpen>>,
     <<CircuitStateHalfOpen, CircuitStateClosed>>,
     <<CircuitStateHalfOpen, CircuitStateOpen>>}

\* C26: whatever Execute calls are made on a breaker, in whatever
\* interleaving and without Reset, its state changes only from Closed to
\* Open, from Open to HalfOpen, from HalfOpen to Closed and from HalfOpen to
\* Open: never from Open to Closed without HalfOpen in between, never from
\* Closed to HalfOpen.
C26_OnlyAllowedEdges ==
    [][\A b \in BreakerIds :
         (Reachable(b, task') /\ heap'[b].state # heap[b].state) =>
            <<heap[b].state, heap'[b].state>> \in AllowedEdges]_vars

\* C28: with Execute calls running concurrently on one breaker, the breaker
\* goes from Open to HalfOpen, and a call that found the breaker Open is let
\* through to fn, only when resetTimeout or more has passed since the failure
\* recorded last; so after a failed probe has opened the breaker again no
\* call is admitted before a full resetTimeout.
C28_AdmissionOnlyAfterResetTimeout ==
    [][\A c \in Calls, p \in Providers :
         LET b == task[c][p].cb
         IN  (task[c][p].pc = "trans" /\ task'[c][p].pc = "fn") =>
                /\ heap[b].sinceLastFailure >= ResetTimeout
                /\ (heap[b].state = CircuitStateOpen
                      => heap'[b].state = CircuitStateHalfOpen)]_vars

\* A step of the goroutine that fetches from provider p for caller c, from
\* its call of Execute to the return of Execute.
ExecuteStepOf(c, p) ==
    /\ task[c][p].pc \in {"exec", "open", "trans", "fn"}
    /\ task'[c][p] # task[c][p]

\* C27: the breakers of different providers are independent. The breaker a
\* goroutine executes on is the one of its own provider, and no step of an
\* Execute on it, be it the call of fn, a recorded failure or success, a
\* rejection or a state change, alters the state, a counter or the
\* last-failure time of the breaker of any other provider.
C27_BreakersAreIndependent ==
    /\ [](\A c \in Calls, p \in Providers :
            task[c][p].cb # Nil => task[c][p].cb[1] = p)
    /\ [][\A c \in Calls, p \in Providers :
            ExecuteStepOf(c, p) =>
               \A b \in BreakerIds :
                  b[1] # p => (heap'[b] = heap[b] /\ streak'[b] = streak[b])]_vars

C27_Witness ==
    \E c \in Calls :
       /\ circuitBreakers["A"] # Nil
       /\ circuitBreakers["B"] # Nil
       /\ heap[circuitBreakers["A"]].state = CircuitStateOpen
       /\ heap[circuitBreakers["B"]].state = CircuitStateClosed
       /\ heap[circuitBreakers["B"]].failureCount = 0
       /\ task[c]["A"].rejected
       /\ Succeeded(c, "B")

\* C25: the breaker opens on failures in a row only. Every successful
\* Execute sets the failure count to 0, and a Closed breaker opens only with
\* the failure that makes maxFailures failures in a row; so after
\* maxFailures - 1 failures, a success and maxFailures - 1 failures more the
\* breaker is Closed, however many calls have failed in all.
C25_OpensOnConsecutiveFailuresOnly ==
    /\ [][\A c \in Calls :
            SuccessStep(c, "A") =>
               /\ heap'[TheBreaker].failureCount = 0
               /\ streak'[TheBreaker] = 0]_vars
    /\ [][(/\ heap[TheBreaker].state = CircuitStateClosed
           /\ heap'[TheBreaker].state = CircuitStateOpen)
          => /\ \E c \in Calls : FailStep(c, "A")
             /\ streak'[TheBreaker] = MaxFailures]_vars
    /\ [](heap[TheBreaker].state = CircuitStateClosed =>
             heap[TheBreaker].failureCount = streak[TheBreaker])

C25_Witness ==
    /\ heap[TheBreaker].state = CircuitStateClosed
    /\ heap[TheBreaker].failureCount = MaxFailures - 1
    /\ tally = MaxTally
    /\ \A c \in Calls : task[c]["A"].pc = "none"

\* C29: in every state that Execute, GetState and Reset calls can lead to,
\* in whatever interleaving, the success count is 0 or 1, and 1 only while
\* the breaker is HalfOpen; the failure count is not negative; and while the
\* breaker is Closed the failure count is below maxFailures.
C29_CounterInvariants ==
    LET cb == heap[TheBreaker]
    IN  /\ cb.successCount \in {0, 1}
        /\ (cb.successCount = 1 => cb.state = CircuitStateHalfOpen)
        /\ cb.failureCount >= 0
        /\ (cb.state = CircuitStateClosed => cb.failureCount < MaxFailures)

C29_Witness ==
    /\ heap[TheBreaker].state = CircuitStateHalfOpen
    /\ heap[TheBreaker].successCount = 1
    /\ observed = <<CircuitStateOpen>>
    /\ \E c \in Calls : task[c]["A"].pc = "fn"
    /\ \E c \in Calls : task[c]["A"].pc = "trans"
====
